---- MODULE Spec2Model ----
(***************************************************************************)
(* python-executor-service: the claim loop (claim_loop.py), the reporting  *)
(* client (cl_client.py), the runner registry (runner_registry.py) and the *)
(* INTEGRA runner with its pylabrobot bridge (runners/integra_assist.py,   *)
(* pylabrobot_bridge.py), as one sequential state machine.                 *)
(*                                                                         *)
(* Python values whose type or truthiness the code tests are tagged        *)
(* records: None, str, bool, dict (a function from keys to values) and     *)
(* list (a sequence).  Strings the code normalises (strip, lower) are      *)
(* sequences of one-character strings.                                     *)
(***************************************************************************)
EXTENDS Integers, Sequences, FiniteSets, TLC

VARIABLES
    pc,         \* position of the single thread of control
    cfg,        \* ExecutorConfig: run_once, poll_interval_ms
    env,        \* os.environ: the INTEGRA_ASSIST_* variables the runner reads
    tasks,      \* run_cycle: the list claim_tasks returned
    idx,        \* run_cycle: position of `task` in the for loop (0: none)
    seq,        \* _process_task: local seq
    result,     \* _process_task: local result (NoResult before runner.run)
    exc,        \* the exception being handled in run_cycle ("" when none)
    processed,  \* run_cycle: local processed
    returned,   \* value of the last `return` of run_cycle (<<>> before any)
    slept,      \* run_forever: ms of the time.sleep that preceded this run_cycle call (<<>>: none)
    calls       \* the client calls and runner invocations of the cycle under way, in order

vars == <<pc, cfg, env, tasks, idx, seq, result, exc, processed, returned, slept, calls>>

---------------------------------------------------------------------------
(* Bounds of the model *)

\* largest number of tasks one claim response holds
MaxTasks == 2

---------------------------------------------------------------------------
(* Python values *)

PyNone == [t |-> "none"]
PyStr(s) == [t |-> "str", v |-> s]
PyBool(b) == [t |-> "bool", v |-> b]
PyDict(d) == [t |-> "dict", v |-> d]
PyList(l) == [t |-> "list", v |-> l]

EmptyDict == [k \in {} |-> ""]

\* bool(x) / `if x:` for the values above
Truthy(x) ==
    CASE x.t = "none" -> FALSE
      [] x.t = "str"  -> x.v # ""
      [] x.t = "bool" -> x.v
      [] x.t = "dict" -> DOMAIN x.v # {}
      [] x.t = "list" -> Len(x.v) > 0

IsDict(x) == x.t = "dict"
IsList(x) == x.t = "list"

\* d.get(key, default) on a function d
DictGet(d, key, default) == IF key \in DOMAIN d THEN d[key] ELSE default

\* {**a, **b}: b's keys override a's
Merge(a, b) == [k \in DOMAIN a \cup DOMAIN b |-> IF k \in DOMAIN b THEN b[k] ELSE a[k]]

\* {key: value} if cond else {}
KeyIf(cond, key, value) == IF cond THEN [k \in {key} |-> value] ELSE EmptyDict

---------------------------------------------------------------------------
(* str.strip() and str.lower() on sequences of characters *)

UpperChars == <<"A","B","C","D","E","F","G","H","I","J","K","L","M",
                "N","O","P","Q","R","S","T","U","V","W","X","Y","Z">>
LowerChars == <<"a","b","c","d","e","f","g","h","i","j","k","l","m",
                "n","o","p","q","r","s","t","u","v","w","x","y","z">>
Whitespace == {" ", "\t", "\n"}

LowerChar(c) ==
    IF \E i \in 1..Len(UpperChars) : UpperChars[i] = c
    THEN LowerChars[CHOOSE i \in 1..Len(UpperChars) : UpperChars[i] = c]
    ELSE c

Lower(s) == [i \in 1..Len(s) |-> LowerChar(s[i])]

RECURSIVE LStrip(_)
LStrip(s) == IF s # <<>> /\ Head(s) \in Whitespace THEN LStrip(Tail(s)) ELSE s

RECURSIVE RStrip(_)
RStrip(s) ==
    IF s # <<>> /\ s[Len(s)] \in Whitespace THEN RStrip(SubSeq(s, 1, Len(s) - 1)) ELSE s

Strip(s) == RStrip(LStrip(s))

---------------------------------------------------------------------------
(* models.py: ExecutionTask, LogEntry, RunnerResult *)

\* "integra_assist"
IntegraAssist == <<"i","n","t","e","g","r","a","_","a","s","s","i","s","t">>
\* " Integra_ASSIST\n": the same id in another letter case, with surrounding whitespace
IntegraAssistMixed == <<" ","I","n","t","e","g","r","a","_","A","S","S","I","S","T","\n">>
\* "x": an adapter no runner is registered for
AdapterX == <<"x">>
LogEntry(message, level, code, data, timestamp) ==
    [message |-> message, level |-> level, code |-> code, data |-> data,
     timestamp |-> timestamp]

RunnerResult(final_status, logs, artifacts, measurements, failure, external) ==
    [final_status |-> final_status, logs |-> logs, artifacts |-> artifacts,
     measurements |-> measurements, failure |-> failure, external |-> external]

\* the value of `result` before runner.run has returned
NoResult == [final_status |-> "", logs |-> <<>>, artifacts |-> <<>>,
             measurements |-> <<>>, failure |-> PyNone, external |-> PyNone]

FinalStatuses == {"completed", "failed", "canceled"}

\* _iso_now(): the clock is not modelled, every reading is the same instant
IsoNow == "2026-01-01T00:00:00+00:00"

---------------------------------------------------------------------------
(* cl_client.py: CLClient *)

ExecutorId == "pyexec-01"

\* what the server answers to one request
Responses == {"200", "HTTPError"}

\* CLClient._post: one request, one response; an HTTPError becomes a RuntimeError
Post(path, payload, response) ==
    IF response = "200"
    THEN [raised |-> FALSE, error |-> ""]
    ELSE [raised |-> TRUE, error |-> "HTTP 500 " \o path]

\* the items of a claim response: optional keys may be absent
ClaimItem(i, adapterId, optional) ==
    Merge([taskId |-> "EXT-" \o ToString(i),
           executionRunId |-> "EXR-" \o ToString(i),
           robotPlanId |-> "RP-" \o ToString(i),
           adapterId |-> adapterId,
           targetPlatform |-> "integra_assist"], optional)

LeaseExpired == "2000-01-01T00:00:00Z"
LeaseFuture == "2999-01-01T00:00:00Z"

\* the kinds of item the server hands out
ItemKinds == {"plain", "mixed_case", "unknown"}

ItemOfKind(i, kind) ==
    CASE kind = "plain" ->
           ClaimItem(i, IntegraAssist, EmptyDict)
      [] kind = "mixed_case" ->
           ClaimItem(i, IntegraAssistMixed,
                     [runtimeParameters |-> PyNone,
                      contractVersion |-> "execution-task/v2",
                      leaseExpiresAt |-> LeaseExpired])
      [] kind = "unknown" ->
           ClaimItem(i, AdapterX,
                     [runtimeParameters |-> PyDict([simulate |-> PyBool(TRUE)]),
                      leaseExpiresAt |-> LeaseFuture])

\* claim_tasks, the ExecutionTask built from one item
ExecutionTask(item) ==
    [task_id |-> item.taskId,
     execution_run_id |-> item.executionRunId,
     robot_plan_id |-> item.robotPlanId,
     adapter_id |-> item.adapterId,
     target_platform |-> item.targetPlatform,
     contract_version |-> DictGet(item, "contractVersion", "execution-task/v1"),
     runtime_parameters |-> DictGet(item, "runtimeParameters", PyDict(EmptyDict)),
     artifact_refs |-> DictGet(item, "artifactRefs", <<>>),
     lease_expires_at |-> IF "leaseExpiresAt" \in DOMAIN item
                          THEN PyStr(item.leaseExpiresAt) ELSE PyNone]

\* claim_tasks: the tasks of a response, in the response's order
claim_tasks(items) == [i \in 1..Len(items) |-> ExecutionTask(items[i])]

\* heartbeat: the request body
HeartbeatBody(sequence, progress) ==
    Merge([executorId |-> ExecutorId, sequence |-> sequence, status |-> "running"],
          KeyIf(Truthy(progress), "progress", progress))

\* append_logs: the transmitted form of one entry
EntryBody(entry) ==
    Merge(Merge(Merge([message |-> entry.message, level |-> entry.level],
                      KeyIf(Truthy(entry.code), "code", entry.code)),
                KeyIf(entry.data # PyNone, "data", entry.data)),
          KeyIf(Truthy(entry.timestamp), "timestamp", entry.timestamp))

\* append_logs: the request body
AppendLogsBody(sequence, entries) ==
    [executorId |-> ExecutorId, sequence |-> sequence,
     entries |-> [i \in 1..Len(entries) |-> EntryBody(entries[i])]]

\* update_status: the request body
UpdateStatusBody(sequence, status, failure, external) ==
    Merge(Merge([executorId |-> ExecutorId, sequence |-> sequence, status |-> status],
                KeyIf(Truthy(failure), "failure", failure)),
          KeyIf(Truthy(external), "external", external))

\* mutant of CompleteBody: the measurements are left out of the request
CompleteBody_NoMeasurements(sequence, final_status, artifacts, measurements) ==
    Merge([executorId |-> ExecutorId, sequence |-> sequence,
           finalStatus |-> final_status],
          KeyIf(Len(artifacts) > 0, "artifacts", artifacts))

\* complete: the request body
CompleteBody(sequence, final_status, artifacts, measurements) ==
    Merge(Merge([executorId |-> ExecutorId, sequence |-> sequence,
                 finalStatus |-> final_status],
                KeyIf(Len(artifacts) > 0, "artifacts", artifacts)),
          KeyIf(Len(measurements) > 0, "measurements", measurements))

\* the request path of an operation on a task
TaskPath(task, op) == "/execution-tasks/" \o task.task_id \o "/" \o op

---------------------------------------------------------------------------
(* runner_registry.py: RunnerRegistry *)

\* self._runners: the registered keys (each maps to an IntegraAssistRunner)
Runners == {IntegraAssist}

\* mutant of RegistryKey: the key is stripped but keeps its letter case
RegistryKey_NoLower(adapter_id) == Strip(adapter_id)

\* RunnerRegistry.get: key = adapter_id.strip().lower()
RegistryKey(adapter_id) == Lower(Strip(adapter_id))

\* mutant of RegistryGet: an unknown adapter falls back to the registered runner
RegistryGet_Fallback(adapter_id) ==
    [raised |-> FALSE, error |-> "", runner |-> IntegraAssist]

\* RunnerRegistry.get: the runner's key, or a KeyError
RegistryGet(adapter_id) ==
    IF RegistryKey(adapter_id) \notin Runners
    THEN [raised |-> TRUE, error |-> "No runner registered for adapter",
          runner |-> <<>>]
    ELSE [raised |-> FALSE, error |-> "", runner |-> RegistryKey(adapter_id)]

---------------------------------------------------------------------------
(* pylabrobot_bridge.py *)

\* str(x)
PyToStr(x) ==
    CASE x.t = "str"  -> x.v
      [] x.t = "none" -> "None"
      [] x.t = "bool" -> (IF x.v THEN "True" ELSE "False")
      [] OTHER        -> "<object>"

Raised(error) == [raised |-> TRUE, error |-> error, value |-> NoResult]
Returned(value) == [raised |-> FALSE, error |-> "", value |-> value]

\* _coerce_result: the LogEntry built from one dict entry of payload["logs"]
CoerceEntry(entry) ==
    LogEntry(PyToStr(DictGet(entry, "message", PyStr(""))),
             PyToStr(DictGet(entry, "level", PyStr("info"))),
             IF "code" \in DOMAIN entry /\ entry["code"] # PyNone
             THEN PyStr(PyToStr(entry["code"])) ELSE PyNone,
             IF IsDict(DictGet(entry, "data", PyNone)) THEN entry["data"] ELSE PyNone,
             IF "timestamp" \in DOMAIN entry /\ entry["timestamp"] # PyNone
             THEN PyStr(PyToStr(entry["timestamp"])) ELSE PyNone)

\* _coerce_result: the loop over payload["logs"], skipping entries that are no dict
CoerceLogs(entries) ==
    LET dicts == SelectSeq(entries, IsDict)
    IN  [i \in 1..Len(dicts) |-> CoerceEntry(dicts[i].v)]

\* mutant of ValidFinalStatus: the check of final_status is missing
ValidFinalStatus_Any(final_status) == TRUE

\* _coerce_result: final_status in {"completed", "failed", "canceled"}
ValidFinalStatus(final_status) == final_status \in FinalStatuses

\* _coerce_result
CoerceResult(payload) ==
    LET final_status == PyToStr(DictGet(payload, "final_status", PyStr("failed")))
        logs == DictGet(payload, "logs", PyList(<<>>))
        artifacts == DictGet(payload, "artifacts", PyList(<<>>))
        measurements == DictGet(payload, "measurements", PyList(<<>>))
        failure == DictGet(payload, "failure", PyNone)
        external == DictGet(payload, "external", PyNone)
    IN  IF ~ValidFinalStatus(final_status)
        THEN Raised("Invalid final_status from hook/command: " \o final_status)
        ELSE IF logs = PyNone
        THEN Raised("'NoneType' object is not iterable")
        ELSE Returned(RunnerResult(
                 final_status,
                 IF IsList(logs) THEN CoerceLogs(logs.v) ELSE <<>>,
                 IF IsList(artifacts) THEN artifacts.v ELSE <<>>,
                 IF IsList(measurements) THEN measurements.v ELSE <<>>,
                 IF IsDict(failure) THEN failure ELSE PyNone,
                 IF IsDict(external) THEN external ELSE PyNone))

\* what the configured hook or command gives back for a task
HookLog == PyDict([message |-> PyStr("pylabrobot hook executed"),
                   code |-> PyStr("PYLABROBOT_HOOK"),
                   timestamp |-> PyStr(IsoNow)])
HookArtifact == [role |-> "telemetry_csv", uri |-> "records/artifacts/telemetry.csv"]
HookMeasurement == [name |-> "volume_ul", value |-> "10"]
HookExternal == PyDict([runId |-> "pylabrobot-run", rawStatus |-> "completed"])
HookFailure == PyDict([code |-> "HOOK_FAILED", message |-> "tip pickup failed"])

HookPayloads ==
    { [final_status |-> PyStr("completed"),
       logs |-> PyList(<<HookLog, PyStr("not a dict")>>),
       artifacts |-> PyList(<<HookArtifact>>),
       measurements |-> PyList(<<HookMeasurement>>),
       external |-> HookExternal],
      [final_status |-> PyStr("failed"), failure |-> HookFailure],
      [final_status |-> PyStr("canceled"), failure |-> PyDict(EmptyDict),
       external |-> PyDict(EmptyDict), artifacts |-> PyNone],
      [final_status |-> PyStr("succeeded"), logs |-> PyList(<<HookLog>>)] }

\* _run_hook / _run_command: the values the hook or command returns in a cycle
HookOutcomes ==
    {[raised |-> FALSE, error |-> "", value |-> PyDict(p)] : p \in HookPayloads}

\* _run_hook / _run_command: the result must be a dict
RunHook(hook) ==
    IF hook.raised THEN [raised |-> TRUE, error |-> hook.error, value |-> EmptyDict]
    ELSE IF ~IsDict(hook.value)
    THEN [raised |-> TRUE, error |-> "Hook return value must be a dict", value |-> EmptyDict]
    ELSE [raised |-> FALSE, error |-> "", value |-> hook.value.v]

\* run_integra_task
run_integra_task(task, hook) ==
    LET payload == RunHook(hook)
    IN  IF payload.raised THEN Raised(payload.error) ELSE CoerceResult(payload.value)

---------------------------------------------------------------------------
(* runners/integra_assist.py: IntegraAssistRunner *)

\* "simulate", "pylabrobot"
Simulate == <<"s","i","m","u","l","a","t","e">>
Pylabrobot == <<"p","y","l","a","b","r","o","b","o","t">>
\* " PyLabRobot "
PylabrobotMixed == <<" ","P","y","L","a","b","R","o","b","o","t"," ">>

\* the environment variables the runner reads; an absent key is an unset variable
Environments ==
    { EmptyDict,
      [INTEGRA_ASSIST_BACKEND |-> PylabrobotMixed, INTEGRA_ASSIST_SIMULATE |-> "0"] }

\* int(s) for the values INTEGRA_ASSIST_SIM_MS takes: <<n>>, or <<>> for a ValueError
IntOf(s) ==
    CASE s = "300" -> <<300>>
      [] s = "0"   -> <<0>>
      [] OTHER     -> <<>>

Backend(environ) ==
    LET b == Lower(Strip(DictGet(environ, "INTEGRA_ASSIST_BACKEND", Simulate)))
    IN  IF b = <<>> THEN Simulate ELSE b

\* mutant of SimulateFlag: an unset INTEGRA_ASSIST_SIMULATE does not force simulation
SimulateFlag_DefaultOff(environ) == DictGet(environ, "INTEGRA_ASSIST_SIMULATE", "0") = "1"

\* os.getenv("INTEGRA_ASSIST_SIMULATE", "1") == "1": the left operand of the `or`
SimulateFlag(environ) == DictGet(environ, "INTEGRA_ASSIST_SIMULATE", "1") = "1"

\* the right operand, evaluated only when the left is false: .get on None raises
ParamsRaise(task, environ) == ~SimulateFlag(environ) /\ ~IsDict(task.runtime_parameters)

ForceSimulate(task, environ) ==
    \/ SimulateFlag(environ)
    \/ Truthy(DictGet(task.runtime_parameters.v, "simulate", PyNone))

UsesBridge(task, environ) ==
    Backend(environ) = Pylabrobot /\ ~ForceSimulate(task, environ)

\* the result returned when the bridge raised
BridgeFailedResult(error) ==
    RunnerResult("failed",
                 <<LogEntry("pylabrobot execution failed: " \o error, "error",
                            PyStr("PYLABROBOT_EXECUTION_FAILED"), PyNone, PyStr(IsoNow))>>,
                 <<>>, <<>>,
                 PyDict([code |-> "PYLABROBOT_EXECUTION_FAILED", class |-> "transient",
                         message |-> error]),
                 PyNone)

\* the result of the local simulation
SimulatedResult(task, environ) ==
    RunnerResult("completed",
                 <<LogEntry("Simulated INTEGRA run for " \o task.robot_plan_id, "info",
                            PyStr("SIMULATED_RUN"),
                            PyDict([adapter |-> task.adapter_id, taskId |-> task.task_id,
                                    backend |-> Backend(environ)]),
                            PyStr(IsoNow))>>,
                 <<[role |-> "telemetry_csv",
                    uri |-> "records/artifacts/" \o task.execution_run_id \o "/telemetry.csv"]>>,
                 <<>>,
                 PyNone,
                 PyDict([runId |-> "sim-" \o task.task_id, rawStatus |-> "completed"]))

\* mutant of IntegraAssistRunner_run: an error of the bridge is not caught
IntegraAssistRunner_run_Uncaught(task, environ, hook) ==
    IF ParamsRaise(task, environ)
    THEN Raised("'NoneType' object has no attribute 'get'")
    ELSE IF UsesBridge(task, environ)
    THEN run_integra_task(task, hook)
    ELSE IF IntOf(DictGet(environ, "INTEGRA_ASSIST_SIM_MS", "300")) = <<>>
         THEN Raised("invalid literal for int() with base 10")
         ELSE Returned(SimulatedResult(task, environ))

\* IntegraAssistRunner.run
IntegraAssistRunner_run(task, environ, hook) ==
    IF ParamsRaise(task, environ)
    THEN Raised("'NoneType' object has no attribute 'get'")
    ELSE IF UsesBridge(task, environ)
    THEN LET r == run_integra_task(task, hook)
         IN  IF r.raised THEN Returned(BridgeFailedResult(r.error)) ELSE r
    ELSE IF IntOf(DictGet(environ, "INTEGRA_ASSIST_SIM_MS", "300")) = <<>>
         THEN Raised("invalid literal for int() with base 10")
         ELSE Returned(SimulatedResult(task, environ))

---------------------------------------------------------------------------
(* config.py: ExecutorConfig *)

\* the configurations the worker is started with
Configs ==
    {[run_once |-> TRUE, poll_interval_ms |-> 2000],
     [run_once |-> FALSE, poll_interval_ms |-> 50]}

---------------------------------------------------------------------------
(* claim_loop.py: ClaimLoop *)

\* mutant of InitialSeq: the counter starts at 0
InitialSeq_Zero == 1 - 1

\* mutant of InitialSeq: the counter lives on the loop object and runs on across tasks
InitialSeq_Continued == 1 + Len(calls)

\* _process_task: seq = 1
InitialSeq == 1

\* mutant of LogsPresent: append_logs is sent whether or not there are logs
LogsPresent_Always(r) == TRUE

\* mutant of StatusArgs: the result's failure is ignored, every normal
\* update_status says "running"
StatusArgs_AlwaysRunning(r, sequence) ==
    [sequence |-> sequence, status |-> "running", failure |-> PyNone,
     external |-> r.external]

\* mutant of RecoverySequence: the recovery update is numbered by the running counter
RecoverySequence_Counter == seq

\* run_cycle: the sequence of the recovery update_status
RecoverySequence == 999999

\* run_forever: the floor of the sleep, in ms
MinSleepMs == 100

\* mutant of Max: min is taken instead of max
Max_Min(a, b) == IF a <= b THEN a ELSE b

\* max(a, b)
Max(a, b) == IF a >= b THEN a ELSE b

\* the task of the for loop's current iteration
task == tasks[idx]

\* one client call: the operation, its arguments and whether it was acknowledged
ClientCall(op, t, args, r) ==
    [op |-> op, task |-> t.task_id, args |-> args, ok |-> ~r.raised]

\* the request body the client sent for a recorded call
BodyOf(c) ==
    CASE c.op = "heartbeat" -> HeartbeatBody(c.args.sequence, c.args.progress)
      [] c.op = "logs"      -> AppendLogsBody(c.args.sequence, c.args.entries)
      [] c.op = "status"    -> UpdateStatusBody(c.args.sequence, c.args.status,
                                                c.args.failure, c.args.external)
      [] c.op = "complete"  -> CompleteBody(c.args.sequence, c.args.final_status,
                                            c.args.artifacts, c.args.measurements)

\* one runner invocation and its outcome
RunnerCall(t, o) ==
    [op |-> "run", task |-> t.task_id, ok |-> ~o.raised, result |-> o.value]

\* mutant of NextTask: `return processed` sits inside the for loop
NextTask_ReturnInLoop(n) ==
    /\ processed' = n
    /\ seq' = 0
    /\ result' = NoResult
    /\ exc' = ""
    /\ idx' = 0 /\ pc' = "returned" /\ returned' = <<n>>

\* run_cycle: the for loop moves to the next task, or run_cycle returns processed
NextTask(n) ==
    /\ processed' = n
    /\ seq' = 0
    /\ result' = NoResult
    /\ exc' = ""
    /\ IF idx < Len(tasks)
       THEN idx' = idx + 1 /\ pc' = "heartbeat" /\ UNCHANGED returned
       ELSE idx' = 0 /\ pc' = "returned" /\ returned' = <<n>>

\* mutant of Except: a failed task is still completed (complete in a finally clause)
Except_Finally(error) ==
    /\ exc' = error
    /\ pc' = "complete"

\* mutant of Except: the failed call is issued again
Except_Retry(error) ==
    /\ exc' = error
    /\ UNCHANGED pc

\* _process_task raises: run_cycle's except clause takes over
Except(error) ==
    /\ exc' = error
    /\ pc' = "except"

\* mutant of StartCycle: the idle cycle returns -1 instead of 0
StartCycle_IdleMinusOne(ts) ==
    /\ tasks' = ts
    /\ processed' = 0
    /\ seq' = 0
    /\ result' = NoResult
    /\ exc' = ""
    /\ IF Len(ts) = 0
       THEN idx' = 0 /\ pc' = "returned" /\ returned' = <<0 - 1>>
       ELSE idx' = 1 /\ pc' = "heartbeat" /\ returned' = <<>>

\* mutant of StartCycle: the for loop starts at the last claimed task
StartCycle_LastFirst(ts) ==
    /\ tasks' = ts
    /\ processed' = 0
    /\ seq' = 0
    /\ result' = NoResult
    /\ exc' = ""
    /\ IF Len(ts) = 0
       THEN idx' = 0 /\ pc' = "returned" /\ returned' = <<0>>
       ELSE idx' = Len(ts) /\ pc' = "heartbeat" /\ returned' = <<>>

\* run_cycle, once claim_tasks has returned ts: the idle return of 0, or
\* processed = 0 and the first iteration of the for loop
StartCycle(ts) ==
    /\ tasks' = ts
    /\ processed' = 0
    /\ seq' = 0
    /\ result' = NoResult
    /\ exc' = ""
    /\ IF Len(ts) = 0
       THEN idx' = 0 /\ pc' = "returned" /\ returned' = <<0>>
       ELSE idx' = 1 /\ pc' = "heartbeat" /\ returned' = <<>>

\* mutant of ClaimTasks: an error of the claim is caught and the cycle counts as idle
ClaimTasks_Swallow ==
    /\ pc = "run_cycle"
    /\ slept' = <<>>
    /\ \E response \in Responses :
         LET r == Post("/execution-tasks/claim", EmptyDict, response)
         IN  IF r.raised
             THEN /\ pc' = "returned"
                  /\ exc' = r.error
                  /\ returned' = <<0>>
                  /\ UNCHANGED <<tasks, idx, seq, result, processed>>
             ELSE \E n \in 0..MaxTasks :
                  \E kinds \in [1..n -> ItemKinds] :
                     StartCycle(claim_tasks([i \in 1..n |-> ItemOfKind(i, kinds[i])]))
    /\ UNCHANGED <<cfg, env, calls>>

\* run_cycle: tasks = self.client.claim_tasks(); an error of the claim is not caught
ClaimTasks ==
    /\ pc = "run_cycle"
    /\ slept' = <<>>
    /\ \E response \in Responses :
         LET r == Post("/execution-tasks/claim", EmptyDict, response)
         IN  IF r.raised
             THEN /\ pc' = "raised"
                  /\ exc' = r.error
                  /\ UNCHANGED <<tasks, idx, seq, result, processed, returned>>
             ELSE \E n \in 0..MaxTasks :
                  \E kinds \in [1..n -> ItemKinds] :
                     StartCycle(claim_tasks([i \in 1..n |-> ItemOfKind(i, kinds[i])]))
    /\ UNCHANGED <<cfg, env, calls>>

\* mutant of Heartbeat: a heartbeat that was not acknowledged is ignored
Heartbeat_BestEffort ==
    /\ pc = "heartbeat"
    /\ \E response \in Responses :
         LET progress == PyDict([state |-> "starting"])
             body == HeartbeatBody(InitialSeq, progress)
             r == Post(TaskPath(task, "heartbeat"), body, response)
         IN  /\ calls' = Append(calls,
                   ClientCall("heartbeat", task,
                              [sequence |-> InitialSeq, progress |-> progress], r))
             /\ seq' = InitialSeq + 1 /\ pc' = "get" /\ UNCHANGED exc
    /\ UNCHANGED <<cfg, env, tasks, idx, result, processed, returned, slept>>

\* _process_task: seq = 1; heartbeat(task, seq, {"state": "starting"}); seq += 1
Heartbeat ==
    /\ pc = "heartbeat"
    /\ \E response \in Responses :
         LET progress == PyDict([state |-> "starting"])
             body == HeartbeatBody(InitialSeq, progress)
             r == Post(TaskPath(task, "heartbeat"), body, response)
         IN  /\ calls' = Append(calls,
                   ClientCall("heartbeat", task,
                              [sequence |-> InitialSeq, progress |-> progress], r))
             /\ IF r.raised
                THEN Except(r.error) /\ seq' = InitialSeq
                ELSE seq' = InitialSeq + 1 /\ pc' = "get" /\ UNCHANGED exc
    /\ UNCHANGED <<cfg, env, tasks, idx, result, processed, returned, slept>>

\* mutant of GetRunner: a task whose lease has expired is given up
GetRunner_LeaseChecked ==
    /\ pc = "get"
    /\ LET g == RegistryGet(task.adapter_id)
       IN  IF g.raised THEN Except(g.error)
           ELSE IF task.lease_expires_at = PyStr(LeaseExpired)
           THEN Except("lease expired")
           ELSE pc' = "run" /\ UNCHANGED exc
    /\ UNCHANGED <<cfg, env, tasks, idx, seq, result, processed, returned, slept, calls>>

\* _process_task: runner = self.registry.get(task.adapter_id)
GetRunner ==
    /\ pc = "get"
    /\ LET g == RegistryGet(task.adapter_id)
       IN  IF g.raised THEN Except(g.error) ELSE pc' = "run" /\ UNCHANGED exc
    /\ UNCHANGED <<cfg, env, tasks, idx, seq, result, processed, returned, slept, calls>>

\* _process_task: if result.logs
LogsPresent(r) == Len(r.logs) > 0

\* _process_task: result = runner.run(task), and the test of result.logs
RunnerRun ==
    /\ pc = "run"
    /\ \E hook \in HookOutcomes :
         LET o == IntegraAssistRunner_run(task, env, hook)
         IN  /\ calls' = Append(calls, RunnerCall(task, o))
             /\ IF o.raised
                THEN Except(o.error) /\ UNCHANGED result
                ELSE /\ result' = o.value
                     /\ pc' = IF LogsPresent(o.value) THEN "append_logs" ELSE "update_status"
                     /\ UNCHANGED exc
    /\ UNCHANGED <<cfg, env, tasks, idx, seq, processed, returned, slept>>

\* _process_task: append_logs(task, seq, result.logs); seq += 1
AppendLogs ==
    /\ pc = "append_logs"
    /\ \E response \in Responses :
         LET body == AppendLogsBody(seq, result.logs)
             r == Post(TaskPath(task, "logs"), body, response)
         IN  /\ calls' = Append(calls,
                   ClientCall("logs", task,
                              [sequence |-> seq, entries |-> result.logs], r))
             /\ IF r.raised
                THEN Except(r.error) /\ UNCHANGED seq
                ELSE seq' = seq + 1 /\ pc' = "update_status" /\ UNCHANGED exc
    /\ UNCHANGED <<cfg, env, tasks, idx, result, processed, returned, slept>>

\* _process_task: the arguments of the normal update_status, by result.failure
StatusArgs(r, sequence) ==
    IF Truthy(r.failure)
    THEN [sequence |-> sequence, status |-> "failed", failure |-> r.failure,
          external |-> r.external]
    ELSE [sequence |-> sequence, status |-> "running", failure |-> PyNone,
          external |-> r.external]

\* mutant of UpdateStatus: an acknowledged "failed" status ends the task
UpdateStatus_FailedEnds ==
    /\ pc = "update_status"
    /\ \E response \in Responses :
         LET args == StatusArgs(result, seq)
             body == UpdateStatusBody(args.sequence, args.status, args.failure, args.external)
             r == Post(TaskPath(task, "status"), body, response)
         IN  /\ calls' = Append(calls, ClientCall("status", task, args, r))
             /\ IF r.raised
                THEN Except(r.error) /\ UNCHANGED <<idx, seq, result, processed, returned>>
                ELSE IF args.status = "failed"
                THEN NextTask(processed)
                ELSE /\ seq' = seq + 1 /\ pc' = "complete"
                     /\ UNCHANGED <<idx, result, exc, processed, returned>>
    /\ UNCHANGED <<cfg, env, tasks, slept>>

\* _process_task: update_status(task, seq, ...); seq += 1
UpdateStatus ==
    /\ pc = "update_status"
    /\ \E response \in Responses :
         LET args == StatusArgs(result, seq)
             body == UpdateStatusBody(args.sequence, args.status, args.failure, args.external)
             r == Post(TaskPath(task, "status"), body, response)
         IN  /\ calls' = Append(calls, ClientCall("status", task, args, r))
             /\ IF r.raised
                THEN Except(r.error) /\ UNCHANGED seq
                ELSE seq' = seq + 1 /\ pc' = "complete" /\ UNCHANGED exc
    /\ UNCHANGED <<cfg, env, tasks, idx, result, processed, returned, slept>>

\* mutant of CountProcessed: the increment is missing
CountProcessed_Missing(n) == n

\* run_cycle: processed += 1, after _process_task returned
CountProcessed(n) == n + 1

\* mutant of Complete: a complete that was not acknowledged is sent again
Complete_UntilAcknowledged ==
    /\ pc = "complete"
    /\ \E response \in Responses :
         LET args == [sequence |-> seq, final_status |-> result.final_status,
                      artifacts |-> result.artifacts,
                      measurements |-> result.measurements]
             body == CompleteBody(args.sequence, args.final_status, args.artifacts,
                                  args.measurements)
             r == Post(TaskPath(task, "complete"), body, response)
         IN  /\ calls' = Append(calls, ClientCall("complete", task, args, r))
             /\ IF r.raised
                THEN UNCHANGED <<pc, exc, idx, seq, result, processed, returned>>
                ELSE NextTask(CountProcessed(processed))
    /\ UNCHANGED <<cfg, env, tasks, slept>>

\* _process_task: complete(task, seq, ...); run_cycle: processed += 1
Complete ==
    /\ pc = "complete"
    /\ \E response \in Responses :
         LET args == [sequence |-> seq, final_status |-> result.final_status,
                      artifacts |-> result.artifacts,
                      measurements |-> result.measurements]
             body == CompleteBody(args.sequence, args.final_status, args.artifacts,
                                  args.measurements)
             r == Post(TaskPath(task, "complete"), body, response)
         IN  /\ calls' = Append(calls, ClientCall("complete", task, args, r))
             /\ IF r.raised
                THEN Except(r.error) /\ UNCHANGED <<idx, seq, result, processed, returned>>
                ELSE NextTask(CountProcessed(processed))
    /\ UNCHANGED <<cfg, env, tasks, slept>>

\* run_cycle: the failure sent by the except clause
ExecutorException(error) ==
    PyDict([code |-> "EXECUTOR_EXCEPTION", class |-> "transient", message |-> error])

\* mutant of RecoveryDone: a failed recovery call is tried again
RecoveryDone_Retry(r) ==
    IF r.raised
    THEN pc' = "except" /\ UNCHANGED <<idx, seq, result, exc, processed, returned>>
    ELSE NextTask(processed)

\* mutant of RecoveryDone: a task that failed is processed again
RecoveryDone_Reprocess(r) ==
    /\ pc' = "heartbeat"
    /\ seq' = 0
    /\ result' = NoResult
    /\ exc' = ""
    /\ UNCHANGED <<idx, processed, returned>>

\* mutant of RecoveryDone: complete is sent after the recovery update
RecoveryDone_ThenComplete(r) ==
    /\ pc' = "complete"
    /\ UNCHANGED <<idx, seq, result, exc, processed, returned>>

\* run_cycle: after the recovery call, acknowledged or not (except Exception: pass),
\* the for loop goes on
RecoveryDone(r) == NextTask(processed)

\* run_cycle: except Exception: update_status(task, 999999, "failed", ...), errors swallowed
Recover ==
    /\ pc = "except"
    /\ \E response \in Responses :
         LET args == [sequence |-> RecoverySequence, status |-> "failed",
                      failure |-> ExecutorException(exc), external |-> PyNone]
             body == UpdateStatusBody(args.sequence, args.status, args.failure, args.external)
             r == Post(TaskPath(task, "status"), body, response)
         IN  /\ calls' = Append(calls, ClientCall("status", task, args, r))
             /\ RecoveryDone(r)
    /\ UNCHANGED <<cfg, env, tasks, slept>>

\* mutant of ReturnOnce: run_once is ignored, the loop sleeps and goes on
ReturnOnce_Ignored ==
    /\ pc = "returned"
    /\ cfg.run_once
    /\ pc' = "run_cycle"
    /\ UNCHANGED <<cfg, env, tasks, idx, seq, result, exc, processed, returned, slept, calls>>

\* run_forever: if self.cfg.run_once: return
ReturnOnce ==
    /\ pc = "returned"
    /\ cfg.run_once
    /\ pc' = "done"
    /\ UNCHANGED <<cfg, env, tasks, idx, seq, result, exc, processed, returned, slept, calls>>

\* mutant of Sleep: run_forever returns after the sleep
Sleep_Return ==
    /\ pc = "returned"
    /\ ~cfg.run_once
    /\ slept' = <<Max(MinSleepMs, cfg.poll_interval_ms)>>
    /\ pc' = "done"
    /\ UNCHANGED <<cfg, env, tasks, idx, seq, result, exc, processed, returned, calls>>

\* run_forever: time.sleep(max(100, poll_interval_ms) / 1000.0), then the next cycle;
\* the finished cycle's tasks, count and return value are dropped, and the record of
\* its calls is closed
Sleep ==
    /\ pc = "returned"
    /\ ~cfg.run_once
    /\ slept' = <<Max(MinSleepMs, cfg.poll_interval_ms)>>
    /\ pc' = "run_cycle"
    /\ tasks' = <<>>
    /\ processed' = 0
    /\ returned' = <<>>
    /\ calls' = <<>>
    /\ UNCHANGED <<cfg, env, idx, seq, result, exc>>

Init ==
    /\ pc = "run_cycle"
    /\ cfg \in Configs
    /\ env \in Environments
    /\ tasks = <<>>
    /\ idx = 0
    /\ seq = 0
    /\ result = NoResult
    /\ exc = ""
    /\ processed = 0
    /\ returned = <<>>
    /\ slept = <<>>
    /\ calls = <<>>

Next ==
    \/ ClaimTasks
    \/ Heartbeat
    \/ GetRunner
    \/ RunnerRun
    \/ AppendLogs
    \/ UpdateStatus
    \/ Complete
    \/ Recover
    \/ ReturnOnce
    \/ Sleep

Spec == Init /\ [][Next]_vars

\* the worker of the default configuration's size: at most MaxLiveTasks tasks
\* per claim (max_tasks = 1)
MaxLiveTasks == 1

\* run_cycle: a claim that returns at most MaxLiveTasks tasks, or fails
ClaimFew == ClaimTasks /\ Len(tasks') <= MaxLiveTasks

NextLive ==
    \/ ClaimFew
    \/ Heartbeat
    \/ GetRunner
    \/ RunnerRun
    \/ AppendLogs
    \/ UpdateStatus
    \/ Complete
    \/ Recover
    \/ ReturnOnce
    \/ Sleep

\* every client call, runner call and sleep returns or raises: the worker is not
\* stopped from outside and takes its next step whenever it has one
FairSpec == Init /\ [][NextLive]_vars /\ WF_vars(NextLive)

\* the poll intervals a polling worker is configured with: negative, 0, below
\* and above the floor of the sleep
PollRange == 30
PollIntervals == (0 - PollRange)..(MinSleepMs + PollRange)

InitSleep ==
    /\ pc = "run_cycle"
    /\ cfg \in {[run_once |-> FALSE, poll_interval_ms |-> p] : p \in PollIntervals}
    /\ env = EmptyDict
    /\ tasks = <<>>
    /\ idx = 0
    /\ seq = 0
    /\ result = NoResult
    /\ exc = ""
    /\ processed = 0
    /\ returned = <<>>
    /\ slept = <<>>
    /\ calls = <<>>

\* run_cycle: a claim that returns no task, or fails
ClaimIdle == ClaimTasks /\ Len(tasks') = 0

NextSleep == ClaimIdle \/ Sleep

\* idle cycles of a polling worker, over the poll intervals
SpecSleep == InitSleep /\ [][NextSleep]_vars

\* run_cycle: tasks = self.client.claim_tasks(), for a server that answers with
\* one of the given lists of items
ClaimOf(lists) ==
    /\ pc = "run_cycle"
    /\ slept' = <<>>
    /\ \E response \in Responses :
         LET r == Post("/execution-tasks/claim", EmptyDict, response)
         IN  IF r.raised
             THEN /\ pc' = "raised"
                  /\ exc' = r.error
                  /\ UNCHANGED <<tasks, idx, seq, result, processed, returned>>
             ELSE \E items \in lists : StartCycle(claim_tasks(items))
    /\ UNCHANGED <<cfg, env, calls>>

\* a worker started with run_once in the given environment
InitOnce(environ) ==
    /\ pc = "run_cycle"
    /\ cfg = [run_once |-> TRUE, poll_interval_ms |-> 2000]
    /\ env = environ
    /\ tasks = <<>>
    /\ idx = 0
    /\ seq = 0
    /\ result = NoResult
    /\ exc = ""
    /\ processed = 0
    /\ returned = <<>>
    /\ slept = <<>>
    /\ calls = <<>>

\* items that differ in leaseExpiresAt only: absent, in the past, in the future
LeaseValues == {"absent", "expired", "future"}

LeaseItem(i, lease) ==
    ClaimItem(i, IntegraAssist,
              CASE lease = "absent"  -> EmptyDict
                [] lease = "expired" -> [leaseExpiresAt |-> LeaseExpired]
                [] lease = "future"  -> [leaseExpiresAt |-> LeaseFuture])

LeaseLists ==
    UNION {{[i \in 1..n |-> LeaseItem(i, leases[i])] : leases \in [1..n -> LeaseValues]} :
              n \in 0..MaxTasks}

ClaimLease == ClaimOf(LeaseLists)

InitLease == InitOnce(EmptyDict)

NextLease ==
    \/ ClaimLease
    \/ Heartbeat
    \/ GetRunner
    \/ RunnerRun
    \/ AppendLogs
    \/ UpdateStatus
    \/ Complete
    \/ Recover
    \/ ReturnOnce

\* one cycle over tasks that differ in their lease only, with the simulating runner
SpecLease == InitLease /\ [][NextLease]_vars

UpperChar(c) ==
    IF \E i \in 1..Len(LowerChars) : LowerChars[i] = c
    THEN UpperChars[CHOOSE i \in 1..Len(LowerChars) : LowerChars[i] = c]
    ELSE c

Upper(s) == [i \in 1..Len(s) |-> UpperChar(s[i])]

\* adapter ids the server sends: the registered id as it is, in upper case, in
\* mixed case with whitespace around it and in lower case with a leading blank,
\* an unregistered id and the empty id
AdapterIds ==
    {IntegraAssist, Upper(IntegraAssist), IntegraAssistMixed,
     <<" ">> \o IntegraAssist, AdapterX, <<>>}

AdapterLists ==
    UNION {{[i \in 1..n |-> ClaimItem(i, ids[i], EmptyDict)] : ids \in [1..n -> AdapterIds]} :
              n \in 0..MaxTasks}

ClaimAdapters == ClaimOf(AdapterLists)

InitRegistry == InitOnce(EmptyDict)

NextRegistry ==
    \/ ClaimAdapters
    \/ Heartbeat
    \/ GetRunner
    \/ RunnerRun
    \/ AppendLogs
    \/ UpdateStatus
    \/ Complete
    \/ Recover
    \/ ReturnOnce

\* one cycle over tasks of many adapter ids, with the registry the worker ships
SpecRegistry == InitRegistry /\ [][NextRegistry]_vars

\* the environments of the runner: the backend unset, blank, "simulate" or
\* " PyLabRobot ", INTEGRA_ASSIST_SIMULATE unset, "1" or "0", and
\* INTEGRA_ASSIST_SIM_MS unset, "0" or not a number
RunnerEnvironments ==
    {Merge(Merge(backend, simulate), sim_ms) :
        backend \in {EmptyDict, [INTEGRA_ASSIST_BACKEND |-> <<" ">>],
                     [INTEGRA_ASSIST_BACKEND |-> Simulate],
                     [INTEGRA_ASSIST_BACKEND |-> PylabrobotMixed]},
        simulate \in {EmptyDict, [INTEGRA_ASSIST_SIMULATE |-> "1"],
                      [INTEGRA_ASSIST_SIMULATE |-> "0"]},
        sim_ms \in {EmptyDict, [INTEGRA_ASSIST_SIM_MS |-> "0"],
                    [INTEGRA_ASSIST_SIM_MS |-> "abc"]}}

\* the runtimeParameters of a claimed item: absent, null, or a mapping whose
\* simulate is true, false or missing
RuntimeParameters ==
    {EmptyDict,
     [runtimeParameters |-> PyNone],
     [runtimeParameters |-> PyDict([simulate |-> PyBool(TRUE)])],
     [runtimeParameters |-> PyDict([simulate |-> PyBool(FALSE)])],
     [runtimeParameters |-> PyDict([volume |-> PyStr("10")])]}

\* the answers of the claim: no task, or one task for the registered adapter
ParameterLists ==
    {<<>>} \cup {<<ClaimItem(1, IntegraAssist, optional)>> : optional \in RuntimeParameters}

ClaimParameters == ClaimOf(ParameterLists)

\* a hook that raises, a hook whose return value is no dict, and a payload whose
\* logs are null
HookRaises == [raised |-> TRUE, error |-> "deck not reachable", value |-> PyNone]
HookNoDict == [raised |-> FALSE, error |-> "", value |-> PyList(<<>>)]
HookLogsNull ==
    [raised |-> FALSE, error |-> "",
     value |-> PyDict([final_status |-> PyStr("completed"), logs |-> PyNone])]

RunnerHooks == HookOutcomes \cup {HookRaises, HookNoDict, HookLogsNull}

\* one runner invocation, its outcome, and the hook's behaviour when the bridge
\* was called (<<>> when it was not)
BridgeCall(t, o, called) ==
    [op |-> "run", task |-> t.task_id, ok |-> ~o.raised, result |-> o.value,
     bridge |-> called]

\* _process_task: result = runner.run(task), with any behaviour of the hook
RunnerRunHooks ==
    /\ pc = "run"
    /\ \E hook \in RunnerHooks :
         LET o == IntegraAssistRunner_run(task, env, hook)
             called == IF ~ParamsRaise(task, env) /\ UsesBridge(task, env)
                       THEN <<hook>> ELSE <<>>
         IN  /\ calls' = Append(calls, BridgeCall(task, o, called))
             /\ IF o.raised
                THEN Except(o.error) /\ UNCHANGED result
                ELSE /\ result' = o.value
                     /\ pc' = IF LogsPresent(o.value) THEN "append_logs" ELSE "update_status"
                     /\ UNCHANGED exc
    /\ UNCHANGED <<cfg, env, tasks, idx, seq, processed, returned, slept>>

InitRunner == \E environ \in RunnerEnvironments : InitOnce(environ)

NextRunner ==
    \/ ClaimParameters
    \/ Heartbeat
    \/ GetRunner
    \/ RunnerRunHooks
    \/ AppendLogs
    \/ UpdateStatus
    \/ Complete
    \/ Recover
    \/ ReturnOnce

\* one cycle of one task, over the runner's environments, the task's
\* runtime_parameters and the hook's behaviours
SpecRunner == InitRunner /\ [][NextRunner]_vars

---------------------------------------------------------------------------
(* The record of a cycle, per task *)

Positions == 1..Len(tasks)

\* the reporting calls (heartbeat, logs, status, complete) made for the task at i
ReportsOf(i) ==
    SelectSeq(calls, LAMBDA c : c.task = tasks[i].task_id /\ c.op # "run")

\* the runner invocations made for the task at i
RunsOf(i) ==
    SelectSeq(calls, LAMBDA c : c.task = tasks[i].task_id /\ c.op = "run")

OpsOf(i) == LET r == ReportsOf(i) IN [k \in 1..Len(r) |-> r[k].op]
SequencesOf(i) == LET r == ReportsOf(i) IN [k \in 1..Len(r) |-> r[k].args.sequence]

\* the for loop is past the task at i
Finished(i) == pc \in {"returned", "done"} \/ idx > i

\* the task's complete call was acknowledged
Completed(i) ==
    \E k \in 1..Len(calls) :
        calls[k].op = "complete" /\ calls[k].task = tasks[i].task_id /\ calls[k].ok

\* the task's iteration ended in the except clause
Handled(i) == Finished(i) /\ ~Completed(i)

\* runner.run returned a result for the task
RunnerReturned(i) ==
    \E k \in 1..Len(calls) :
        calls[k].op = "run" /\ calls[k].task = tasks[i].task_id /\ calls[k].ok

\* the result runner.run returned for the task
ResultOf(i) == RunsOf(i)[1].result

\* the recovery update_status of the except clause
IsRecovery(c) ==
    /\ c.op = "status"
    /\ c.args.sequence = 999999
    /\ c.args.status = "failed"
    /\ c.args.failure.t = "dict"
    /\ c.args.failure.v.code = "EXECUTOR_EXCEPTION"

---------------------------------------------------------------------------
(* C1: for every task whose complete call was acknowledged, the sequence
   numbers of its reporting calls are 1, 2, ..., n in call order, the call
   carrying n is the complete call, and n is 3 when the runner result has
   no logs and 4 when it has logs. *)
SuccessSequenceNumbers ==
    \A i \in Positions :
        Completed(i) =>
            LET r == ReportsOf(i)
                n == Len(r)
            IN  /\ \A k \in 1..n : r[k].args.sequence = k
                /\ r[n].op = "complete"
                /\ n = IF Len(ResultOf(i).logs) = 0 THEN 3 ELSE 4

\* a cycle returned in which one task completed on 3 calls and another on 4
SuccessSequenceNumbersWitness ==
    /\ pc = "returned"
    /\ \E i, j \in Positions :
          /\ Completed(i) /\ Len(ReportsOf(i)) = 3
          /\ Completed(j) /\ Len(ReportsOf(j)) = 4

(* C2: for every task whose complete call was acknowledged, the reporting
   calls are, in order, heartbeat, append_logs exactly when the runner
   result has logs, update_status, complete, each acknowledged, and
   nothing else. *)
SuccessCallOrder ==
    \A i \in Positions :
        Completed(i) =>
            /\ OpsOf(i) = IF Len(ResultOf(i).logs) > 0
                          THEN <<"heartbeat", "logs", "status", "complete">>
                          ELSE <<"heartbeat", "status", "complete">>
            /\ LET r == ReportsOf(i) IN \A k \in 1..Len(r) : r[k].ok

\* the worker stopped after a cycle whose task shipped its logs and completed
SuccessCallOrderWitness ==
    /\ pc = "done"
    /\ \E i \in Positions :
          /\ Completed(i)
          /\ \E k \in 1..Len(ReportsOf(i)) :
                ReportsOf(i)[k].op = "logs" /\ Len(ReportsOf(i)[k].args.entries) > 0

(* C3, as claimed: for every task whose iteration ended in the except
   clause, the reporting calls are exactly the heartbeat with sequence 1
   and then the recovery update_status; no append_logs, no complete. *)
FailurePathOnlyHeartbeatAndRecovery ==
    \A i \in Positions :
        Handled(i) =>
            LET r == ReportsOf(i)
            IN  /\ Len(r) = 2
                /\ r[1].op = "heartbeat" /\ r[1].args.sequence = 1
                /\ IsRecovery(r[2])

(* C3, amended: for every task whose iteration ended in the except clause,
   the first reporting call is the heartbeat with sequence 1 and the last
   is the single recovery update_status (999999, "failed",
   EXECUTOR_EXCEPTION).  When the failure was in the heartbeat, the
   registry lookup or the runner, these are the only two calls.  When it
   was in a normal-path reporting call, the acknowledged normal-path calls
   and then the failed one, numbered 2, 3, ..., lie between them; no
   complete call is acknowledged. *)
FailurePathCalls ==
    \A i \in Positions :
        Handled(i) =>
            LET r == ReportsOf(i)
                n == Len(r)
            IN  /\ n >= 2
                /\ r[1].op = "heartbeat" /\ r[1].args.sequence = 1
                /\ IsRecovery(r[n])
                /\ \A k \in 1..(n - 1) : r[k].args.sequence = k
                /\ \A k \in 1..(n - 2) : r[k].ok
                /\ RunnerReturned(i) => ~r[n - 1].ok /\ r[n - 1].op # "heartbeat"
                /\ ~RunnerReturned(i) => n = 2
                /\ \A k \in 1..n : r[k].op = "complete" => ~r[k].ok

\* a task whose complete call failed: heartbeat, logs, status, complete, recovery
FailurePathCallsWitness ==
    \E i \in Positions :
        /\ Handled(i)
        /\ OpsOf(i) = <<"heartbeat", "logs", "status", "complete", "status">>

(* C4: in a cycle with claimed tasks, whatever fails for whichever task,
   every task the for loop has reached or passed had its heartbeat with
   sequence 1 issued, run_cycle returns a count, and the only error that
   leaves run_cycle is one of claim_tasks itself (no call was made). *)
CycleSurvivesTaskErrors ==
    /\ \A i \in Positions :
          (Finished(i) \/ (idx = i /\ pc # "heartbeat")) =>
              LET r == ReportsOf(i)
              IN  /\ Len(r) >= 1
                  /\ r[1].op = "heartbeat"
                  /\ r[1].args.sequence = 1
    /\ pc \in {"returned", "done"} => Len(returned) = 1
    /\ pc = "raised" => Len(calls) = 0 /\ Len(tasks) = 0

\* a cycle returned although, for both tasks, every call including the recovery failed
CycleSurvivesTaskErrorsWitness ==
    /\ pc = "returned"
    /\ Len(tasks) = 2
    /\ Len(calls) = 4
    /\ \A k \in 1..Len(calls) : ~calls[k].ok

(* C5: when claim_tasks returns the empty list, run_cycle makes no
   reporting call, invokes no runner and returns 0. *)
IdleCycle ==
    (pc \in {"returned", "done"} /\ Len(tasks) = 0) =>
        Len(calls) = 0 /\ returned = <<0>>

\* an idle cycle of a worker that keeps polling has returned
IdleCycleWitness ==
    pc = "returned" /\ Len(tasks) = 0 /\ ~cfg.run_once /\ returned = <<0>>

(* C6: the value run_cycle returns is the number of claimed tasks whose
   complete call was acknowledged; tasks that ended in the except clause
   are not counted, so it lies between 0 and the number of claimed tasks. *)
ProcessedCount ==
    LET completed == {i \in Positions : Completed(i)}
    IN  /\ pc \in {"returned", "done"} =>
              /\ returned = <<Cardinality(completed)>>
              /\ returned[1] >= 0 /\ returned[1] <= Len(tasks)
              /\ \A i \in Positions : Handled(i) <=> i \notin completed
        /\ pc \notin {"returned", "done", "run_cycle", "raised"} =>
              processed = Cardinality(completed)

\* a cycle of two tasks returned 1: one completed, the other ended in the except clause
ProcessedCountWitness ==
    /\ pc = "returned"
    /\ Len(tasks) = 2
    /\ returned = <<1>>
    /\ \E i, j \in Positions : Completed(i) /\ Handled(j)

\* the claimed adapter ids that, stripped and lower-cased, have no runner
UnknownAdapters ==
    {a \in {ItemOfKind(1, kind).adapterId : kind \in ItemKinds} :
        RegistryKey(a) \notin Runners}

(* C7: for a task whose adapter_id, stripped and lower-cased, has no
   runner in the registry, no runner is invoked, no append_logs or complete
   is sent, the only update_status is the one recovery update (999999,
   "failed", EXECUTOR_EXCEPTION), sent once the task's iteration has ended,
   and the task is not counted. *)
LookupMiss ==
    /\ \A i \in Positions :
          tasks[i].adapter_id \in UnknownAdapters =>
              LET r == ReportsOf(i)
                  status == {k \in 1..Len(r) : r[k].op = "status"}
              IN  /\ Len(RunsOf(i)) = 0
                  /\ \A k \in 1..Len(r) : r[k].op \in {"heartbeat", "status"}
                  /\ \A k \in status : IsRecovery(r[k])
                  /\ Cardinality(status) = IF Finished(i) THEN 1 ELSE 0
                  /\ ~Completed(i)
    /\ pc \in {"returned", "done"} =>
          returned[1] <= Cardinality({i \in Positions :
                                         tasks[i].adapter_id \notin UnknownAdapters})

\* a task of adapter "x" got its heartbeat acknowledged and then the recovery update
LookupMissWitness ==
    \E i \in Positions :
        /\ tasks[i].adapter_id = AdapterX
        /\ Finished(i)
        /\ Len(ReportsOf(i)) = 2
        /\ ReportsOf(i)[1].ok
        /\ IsRecovery(ReportsOf(i)[2])

(* C8: when runner.run raised for a task, no append_logs, no normal-band
   update_status and no complete is made for it; the acknowledged heartbeat
   is followed only by the recovery update_status (999999, "failed"), which
   is the last call recorded for the task. *)
RunnerRaiseStopsReporting ==
    \A i \in Positions :
        (\E k \in 1..Len(calls) :
            calls[k].op = "run" /\ calls[k].task = tasks[i].task_id /\ ~calls[k].ok) =>
            LET r == ReportsOf(i)
            IN  /\ Len(r) \in {1, 2}
                /\ r[1].op = "heartbeat" /\ r[1].ok
                /\ Len(r) = 2 => IsRecovery(r[2])
                /\ Finished(i) => Len(r) = 2

\* the runner raised for one task and a later task of the same cycle completed
RunnerRaiseStopsReportingWitness ==
    \E i, j \in Positions :
        /\ i < j
        /\ Len(RunsOf(i)) = 1 /\ ~RunsOf(i)[1].ok
        /\ Completed(j)

(* C9: the recovery update_status (999999) is attempted at most once per
   task and exactly once for a task that ended in the except clause; it is
   the task's last call, and whether or not it is acknowledged the for loop
   moves on: no retry, no other call, no error leaving run_cycle. *)
RecoveryOnceAndSwallowed ==
    /\ \A i \in Positions :
          LET r == ReportsOf(i)
              recs == {k \in 1..Len(r) : r[k].args.sequence = 999999}
          IN  /\ Cardinality(recs) <= 1
              /\ \A k \in recs : k = Len(r) /\ Finished(i)
              /\ Handled(i) => Cardinality(recs) = 1
    /\ pc = "raised" => Len(calls) = 0

\* the first task's recovery call failed and the second task got its heartbeat
RecoveryOnceAndSwallowedWitness ==
    /\ Len(tasks) = 2
    /\ Len(ReportsOf(1)) >= 2
    /\ ReportsOf(1)[Len(ReportsOf(1))].args.sequence = 999999
    /\ ~ReportsOf(1)[Len(ReportsOf(1))].ok
    /\ Len(ReportsOf(2)) >= 1
    /\ ReportsOf(2)[1].op = "heartbeat"

\* the normal-band update_status calls of the task at i, by position in its calls
NormalStatusOf(i) ==
    LET r == ReportsOf(i)
    IN  {k \in 1..Len(r) : r[k].op = "status" /\ r[k].args.sequence # 999999}

(* C10, as claimed: the normal-band update_status says "failed" and
   carries the result's failure when the result's failure is set (is not
   None), and says "running" with no failure otherwise; it carries the
   result's external. *)
NormalStatusByFailureSet ==
    \A i \in Positions :
        \A k \in NormalStatusOf(i) :
            LET c == ReportsOf(i)[k]
                r == ResultOf(i)
            IN  /\ r.failure # PyNone =>
                      c.args.status = "failed" /\ c.args.failure = r.failure
                /\ r.failure = PyNone =>
                      c.args.status = "running" /\ c.args.failure = PyNone
                /\ c.args.external = r.external

(* C10, amended: at most one normal-band update_status is sent per task,
   exactly one on the success path, right after the optional append_logs and
   right before complete, numbered by the running counter.  It says
   "failed" and carries the result's failure when that failure is a
   non-empty mapping; it says "running" with no failure when the failure is
   None or an empty mapping.  In both cases it is called with the result's
   external, which the request body holds when it is non-empty. *)
NormalStatusByFailure ==
    \A i \in Positions :
      LET calls_i == ReportsOf(i)
          normal == NormalStatusOf(i)
      IN
        /\ Cardinality(normal) <= 1
        /\ Completed(i) => Cardinality(normal) = 1
        /\ \A k \in normal :
              LET c == calls_i[k]
                  r == ResultOf(i)
              IN  /\ RunnerReturned(i)
                  /\ Truthy(r.failure) =>
                        c.args.status = "failed" /\ c.args.failure = r.failure
                  /\ ~Truthy(r.failure) =>
                        c.args.status = "running" /\ c.args.failure = PyNone
                  /\ c.args.external = r.external
                  /\ Truthy(r.external) => BodyOf(c).external = r.external
                  /\ k = IF Len(r.logs) > 0 THEN 3 ELSE 2
                  /\ c.args.sequence = k
                  /\ k > 2 => calls_i[k - 1].op = "logs"
                  /\ Completed(i) =>
                        /\ calls_i[k + 1].op = "complete"
                        /\ calls_i[k + 1].args.sequence = k + 1

\* a task completed whose result carried an empty failure mapping
NormalStatusByFailureWitness ==
    \E i, j \in Positions :
        /\ Completed(i) /\ ResultOf(i).failure = PyDict(EmptyDict)
        /\ Completed(j) /\ Truthy(ResultOf(j).failure)

(* C11: the final_status of every complete call, as argument and in the
   request body, is one of completed, failed, canceled, and so is the
   final_status of every result a runner returned: a final_status outside
   the three that a hook or command gives back is rejected and does not
   reach complete. *)
FinalStatusValid ==
    \A k \in 1..Len(calls) :
        /\ calls[k].op = "complete" =>
              /\ calls[k].args.final_status \in {"completed", "failed", "canceled"}
              /\ BodyOf(calls[k]).finalStatus = calls[k].args.final_status
        /\ (calls[k].op = "run" /\ calls[k].ok) =>
              calls[k].result.final_status \in {"completed", "failed", "canceled"}

\* the hook gave back final_status "succeeded"; the task was completed as "failed"
FinalStatusValidWitness ==
    \E i \in Positions :
        /\ Completed(i)
        /\ ResultOf(i).final_status = "failed"
        /\ ResultOf(i).failure.t = "dict"
        /\ ResultOf(i).failure.v.message =
              "Invalid final_status from hook/command: succeeded"

(* C12: within one cycle runner.run is invoked at most once for each
   claimed task, exactly once for a task whose runner was reached, also
   when a later reporting call of that task failed. *)
OneRunnerInvocation ==
    \A i \in Positions :
        /\ Len(RunsOf(i)) <= 1
        /\ Completed(i) => Len(RunsOf(i)) = 1
        /\ (\E k \in 1..Len(calls) :
               /\ calls[k].task = tasks[i].task_id
               /\ calls[k].op \in {"logs", "complete"}) => Len(RunsOf(i)) = 1

\* the runner returned for a task, a later reporting call failed and the loop went on
OneRunnerInvocationWitness ==
    \E i \in Positions :
        Handled(i) /\ RunnerReturned(i) /\ Len(RunsOf(i)) = 1

\* the position, in the claimed list, of the task a recorded call belongs to
PosOf(c) == CHOOSE i \in Positions : tasks[i].task_id = c.task

\* the processing of the task at i is over: its last call is the acknowledged
\* complete or the recovery update
Over(i) ==
    LET r == ReportsOf(i)
    IN  /\ Len(r) > 0
        /\ \/ r[Len(r)].op = "complete" /\ r[Len(r)].ok
           \/ r[Len(r)].args.sequence = 999999

(* C13: tasks are processed one at a time in the order of the claim: every
   recorded call belongs to a claimed task, the calls of the task at
   position i all come before the calls of the task at position i + 1,
   a task has calls only when the processing of every task before it is
   over, and only the for loop's current task is in progress. *)
OneTaskAtATime ==
    /\ \A k \in 1..Len(calls) : \E i \in Positions : tasks[i].task_id = calls[k].task
    /\ \A k \in 1..(Len(calls) - 1) : PosOf(calls[k]) <= PosOf(calls[k + 1])
    /\ \A i \in Positions :
          Len(ReportsOf(i)) > 0 =>
              /\ \A j \in 1..(i - 1) : Over(j)
              /\ ~Over(i) => idx = i
    /\ \A i, j \in Positions : i # j => tasks[i].task_id # tasks[j].task_id

\* the second of two tasks is at its runner after the first ended with a recovery update
OneTaskAtATimeWitness ==
    /\ Len(tasks) = 2
    /\ idx = 2
    /\ pc = "run"
    /\ Over(1) /\ ReportsOf(1)[Len(ReportsOf(1))].args.sequence = 999999
    /\ Len(ReportsOf(2)) = 1

(* C14: sequence numbering is per task: the first reporting call of every
   task is the heartbeat with sequence 1, whatever earlier tasks did; and
   when, of two claimed tasks, the runner raised for the first and the
   second completed, the first has the calls heartbeat 1, update_status
   999999, the second has the success-path calls numbered from 1, and
   run_cycle returns 1. *)
PerTaskNumbering ==
    /\ \A i \in Positions :
          LET r == ReportsOf(i)
          IN  Len(r) > 0 => r[1].op = "heartbeat" /\ r[1].args.sequence = 1
    /\ (/\ pc \in {"returned", "done"}
        /\ Len(tasks) = 2
        /\ Len(RunsOf(1)) = 1 /\ ~RunsOf(1)[1].ok
        /\ Completed(2)) =>
            /\ OpsOf(1) = <<"heartbeat", "status">>
            /\ SequencesOf(1) = <<1, 999999>>
            /\ IsRecovery(ReportsOf(1)[2])
            /\ \/ OpsOf(2) = <<"heartbeat", "status", "complete">>
                  /\ SequencesOf(2) = <<1, 2, 3>>
               \/ OpsOf(2) = <<"heartbeat", "logs", "status", "complete">>
                  /\ SequencesOf(2) = <<1, 2, 3, 4>>
            /\ returned = <<1>>

\* of two tasks the first's runner raised and the second completed; run_cycle returned
PerTaskNumberingWitness ==
    /\ pc = "returned"
    /\ Len(tasks) = 2
    /\ Len(RunsOf(1)) = 1 /\ ~RunsOf(1)[1].ok
    /\ Completed(2)
    /\ SequencesOf(2) = <<1, 2, 3, 4>>

(* C15: the step taken in the except clause appends exactly one call, the
   recovery update_status of the current task, and ends that task's
   iteration; and in every state a task's recovery update is the last call
   recorded for it, so no heartbeat, append_logs, update_status or complete
   follows it. *)
OnlyRecoveryAfterFailure ==
    /\ [][pc = "except" =>
            /\ Len(calls') = Len(calls) + 1
            /\ IsRecovery(calls'[Len(calls')])
            /\ calls'[Len(calls')].task = tasks[idx].task_id
            /\ pc' \in {"heartbeat", "returned"}
            /\ idx' # idx]_vars
    /\ [](\A k, l \in 1..Len(calls) :
            (k < l /\ calls[k].op = "status" /\ calls[k].args.sequence = 999999) =>
                calls[l].task # calls[k].task)

\* a task's complete call failed, the recovery update was sent, and the next task started
OnlyRecoveryAfterFailureWitness ==
    /\ Len(tasks) = 2
    /\ idx = 2
    /\ OpsOf(1) = <<"heartbeat", "status", "complete", "status">>
    /\ Len(ReportsOf(2)) > 0

(* C16: for every task, on every path, the sequence numbers of its
   reporting calls are strictly increasing in call order and start at 1:
   they are 1..m for some m <= 4, optionally followed by the single
   sentinel 999999. *)
SequencesIncrease ==
    \A i \in Positions :
        LET q == SequencesOf(i)
            n == Len(q)
        IN  n > 0 =>
              /\ q[1] = 1
              /\ \A k \in 1..(n - 1) : q[k] < q[k + 1]
              /\ \E m \in 1..4 :
                    /\ \A k \in 1..m : k <= n /\ q[k] = k
                    /\ n = m \/ (n = m + 1 /\ q[n] = 999999)

\* a task whose append_logs failed: sequences 1, 2, 999999
SequencesIncreaseWitness ==
    \E i \in Positions :
        /\ SequencesOf(i) = <<1, 2, 999999>>
        /\ OpsOf(i) = <<"heartbeat", "logs", "status">>

(* C17: a heartbeat, append_logs, update_status or complete that was not
   acknowledged is not issued again: no task has two calls of the same
   operation and sequence, the failed call is the task's last normal-path
   call, and the only call after it is the recovery update_status, sent as
   soon as the except clause has run. *)
NoRetry ==
    \A i \in Positions :
        LET r == ReportsOf(i)
            n == Len(r)
        IN  /\ \A k, l \in 1..n :
                  (r[k].op = r[l].op /\ r[k].args.sequence = r[l].args.sequence) => k = l
            /\ \A k \in 1..n :
                  (~r[k].ok /\ r[k].args.sequence # 999999) =>
                      \/ k = n /\ idx = i /\ pc = "except"
                      \/ k = n - 1 /\ IsRecovery(r[n]) /\ Finished(i)

\* a task whose update_status failed: heartbeat, failed status, recovery, and the loop moved on
NoRetryWitness ==
    \E i \in Positions :
        LET r == ReportsOf(i)
        IN  /\ Finished(i)
            /\ Len(r) = 3
            /\ r[2].op = "status" /\ ~r[2].ok /\ r[2].args.sequence = 2
            /\ IsRecovery(r[3])

(* C18: with run_once, claim_tasks is reached once only: after the first
   cycle has started the worker never gets back to the claim, it never
   sleeps, run_forever returns right after run_cycle returned, whatever
   happened to the tasks, and nothing happens after that. *)
RunOnceSingleCycle ==
    /\ [][cfg.run_once =>
            /\ pc # "run_cycle" => pc' # "run_cycle"
            /\ pc = "returned" => pc' = "done"]_vars
    /\ [][pc # "done"]_vars
    /\ [](cfg.run_once => Len(slept) = 0)
    /\ [](pc = "done" => cfg.run_once /\ Len(returned) = 1)

\* a run_once worker returned after a cycle with a completed and a failed task
RunOnceSingleCycleWitness ==
    /\ pc = "done"
    /\ cfg.run_once
    /\ Len(slept) = 0
    /\ \E i, j \in Positions : Completed(i) /\ Handled(j)

(* C19, as claimed: without run_once, run_forever repeats forever: given
   that every call returns or raises, the worker always has a next step,
   which brings it to the next claim_tasks call. *)
PollsForever ==
    ~cfg.run_once => ENABLED NextLive

(* C19, amended: without run_once, every cycle that returns is followed by
   one sleep and then the next cycle, whether the cycle was idle,
   successful or had failing tasks, so claim_tasks is called infinitely
   often, unless a claim_tasks call itself fails: that error is not caught
   and ends run_forever. *)
PollsUntilClaimFails ==
    /\ ~cfg.run_once => ([]<>(pc = "run_cycle") \/ <>[](pc = "raised"))
    /\ [][pc = "run_cycle" => pc' \in {"heartbeat", "returned", "raised"}]_vars
    /\ [][(~cfg.run_once /\ pc = "returned") =>
             (pc' = "run_cycle" /\ Len(slept') = 1)]_vars
    /\ [](~cfg.run_once => pc # "done")

\* a polling worker slept after a cycle and is about to claim again
PollsUntilClaimFailsWitness ==
    /\ ~cfg.run_once
    /\ pc = "run_cycle"
    /\ Len(slept) = 1

(* C20: the sleep between two cycles lasts max(100, poll_interval_ms)
   milliseconds: never less than 100, also for 0 and for negative poll
   intervals, and exactly poll_interval_ms when that is at least 100. *)
SleepFloor ==
    Len(slept) = 1 =>
        /\ slept[1] >= 100
        /\ cfg.poll_interval_ms >= 100 => slept[1] = cfg.poll_interval_ms
        /\ cfg.poll_interval_ms < 100 => slept[1] = 100

\* a worker configured with a negative poll interval slept 100 ms
SleepFloorWitness ==
    /\ Len(slept) = 1
    /\ cfg.poll_interval_ms < 0
    /\ slept[1] = 100

(* C25: a claim_tasks call either succeeds, and the cycle starts with no
   error pending, or fails, and then the error leaves run_cycle and
   run_forever: no reporting call and no runner invocation was made in that
   cycle, nothing is returned, and the worker takes no further step, with
   or without run_once. *)
ClaimFailureEndsLoop ==
    /\ [][pc = "run_cycle" =>
            \/ pc' = "raised" /\ exc' = "HTTP 500 /execution-tasks/claim"
            \/ pc' \in {"heartbeat", "returned"} /\ exc' = ""]_vars
    /\ [][pc # "raised"]_vars
    /\ [](pc = "raised" =>
            /\ Len(calls) = 0
            /\ Len(tasks) = 0
            /\ Len(returned) = 0
            /\ Len(slept) = 0)

\* the claim of a polling worker failed and the error left run_forever
ClaimFailureEndsLoopWitness ==
    /\ pc = "raised"
    /\ ~cfg.run_once
    /\ exc = "HTTP 500 /execution-tasks/claim"

(* C26: every task gets exactly one heartbeat, its first call, with
   sequence 1 and progress state "starting"; the registry lookup and the
   runner come only after that heartbeat was acknowledged, a task whose
   heartbeat failed has no runner invocation, and no heartbeat is recorded
   after a task's runner invocation. *)
HeartbeatFirst ==
    /\ \A i \in Positions :
          LET r == ReportsOf(i)
          IN  /\ \A k \in 1..Len(r) : r[k].op = "heartbeat" <=> k = 1
              /\ Len(r) > 0 =>
                    /\ r[1].args.sequence = 1
                    /\ r[1].args.progress = PyDict([state |-> "starting"])
                    /\ BodyOf(r[1]).progress = PyDict([state |-> "starting"])
              /\ Len(RunsOf(i)) > 0 => (Len(r) > 0 /\ r[1].ok)
              /\ (idx = i /\ pc \in {"get", "run"}) => (Len(r) = 1 /\ r[1].ok)
    /\ \A k, l \in 1..Len(calls) :
          (calls[k].op = "run" /\ calls[l].op = "heartbeat"
              /\ calls[l].task = calls[k].task) => l < k

\* one task's heartbeat failed and it never reached its runner; another task did
HeartbeatFirstWitness ==
    \E i, j \in Positions :
        /\ OpsOf(i) = <<"heartbeat", "status">>
        /\ ~ReportsOf(i)[1].ok
        /\ Len(RunsOf(i)) = 0
        /\ Len(RunsOf(j)) = 1

(* C21: no heartbeat, append_logs or update_status request, the recovery
   update included, has an artifacts or a measurements field; the complete
   call of a task is made with the artifacts and the measurements of that
   task's runner result, and its request carries each list that is not
   empty, unchanged. *)
ArtifactsOnlyInComplete ==
    \A k \in 1..Len(calls) :
        LET c == calls[k]
        IN  c.op # "run" =>
              LET b == BodyOf(c)
              IN  IF c.op = "complete"
                  THEN LET res == ResultOf(PosOf(c))
                       IN  /\ c.args.artifacts = res.artifacts
                           /\ c.args.measurements = res.measurements
                           /\ "artifacts" \in DOMAIN b <=> Len(res.artifacts) > 0
                           /\ "measurements" \in DOMAIN b <=> Len(res.measurements) > 0
                           /\ "artifacts" \in DOMAIN b => b.artifacts = res.artifacts
                           /\ "measurements" \in DOMAIN b =>
                                 b.measurements = res.measurements
                  ELSE /\ "artifacts" \notin DOMAIN b
                       /\ "measurements" \notin DOMAIN b

\* one complete request carried artifacts and measurements, and the recovery
\* update was sent for a task whose runner result has artifacts
ArtifactsOnlyInCompleteWitness ==
    /\ \E k \in 1..Len(calls) :
          /\ calls[k].op = "complete"
          /\ {"artifacts", "measurements"} \subseteq DOMAIN BodyOf(calls[k])
    /\ \E i \in Positions :
          /\ RunnerReturned(i)
          /\ Len(ResultOf(i).artifacts) > 0
          /\ \E k \in 1..Len(ReportsOf(i)) : IsRecovery(ReportsOf(i)[k])

(* C27: a task whose runner returned a result and whose reporting calls
   were all acknowledged ends with a complete call carrying the result's
   final_status, whatever that status and the result's failure are, and is
   counted in the value run_cycle returns; an acknowledged normal
   update_status with status "failed" is followed by the complete call. *)
ReturnedResultCompletes ==
    /\ \A i \in Positions :
          LET r == ReportsOf(i)
          IN  /\ (Finished(i) /\ RunnerReturned(i) /\ \A k \in 1..Len(r) : r[k].ok) =>
                    /\ Completed(i)
                    /\ r[Len(r)].op = "complete"
                    /\ r[Len(r)].args.final_status = ResultOf(i).final_status
                    /\ BodyOf(r[Len(r)]).finalStatus = ResultOf(i).final_status
              /\ \A k \in 1..Len(r) :
                    (r[k].op = "status" /\ r[k].args.status = "failed" /\ r[k].ok
                        /\ r[k].args.sequence # RecoverySequence
                        /\ (Finished(i) \/ pc = "except")) =>
                       (k < Len(r) /\ r[k + 1].op = "complete")
    /\ pc = "returned" =>
          returned = <<Cardinality({i \in Positions : Completed(i)})>>

\* run_cycle returned 2: one task completed as failed after a "failed" status,
\* the other as canceled after a "running" status
ReturnedResultCompletesWitness ==
    /\ returned = <<2>>
    /\ \E i, j \in Positions :
          /\ Completed(i) /\ ResultOf(i).final_status = "failed"
          /\ ReportsOf(i)[Len(ReportsOf(i)) - 1].args.status = "failed"
          /\ Completed(j) /\ ResultOf(j).final_status = "canceled"
          /\ ReportsOf(j)[Len(ReportsOf(j)) - 1].args.status = "running"

(* C29: provided every client call and every runner call returns or
   raises, a cycle that was started ends: run_cycle returns its count, or
   the claim's error leaves it.  Each claimed task gets at most five
   reporting calls and, once the for loop is past it, ended in exactly one
   of two ways: an acknowledged complete, or the exception handler's
   recovery update. *)
RunCycleTerminates ==
    /\ (pc \in {"run_cycle", "heartbeat", "get", "run", "append_logs",
                "update_status", "complete", "except"})
          ~> (pc \in {"returned", "raised"})
    /\ [](\A i \in Positions :
            LET r == ReportsOf(i)
            IN  /\ Len(r) <= 5
                /\ Finished(i) =>
                      /\ Len(r) > 0
                      /\ Completed(i) <=> ~IsRecovery(r[Len(r)])
                      /\ Completed(i) <=> r[Len(r)].op = "complete")
    /\ [](pc = "returned" =>
            /\ returned = <<processed>>
            /\ \A i \in Positions : Finished(i))

\* run_cycle returned after a task that took five reporting calls: its
\* complete was not acknowledged and the recovery update followed
RunCycleTerminatesWitness ==
    /\ pc = "returned"
    /\ returned = <<0>>
    /\ \E i \in Positions :
          /\ Len(ReportsOf(i)) = 5
          /\ IsRecovery(ReportsOf(i)[5])

\* what a reporting call says, apart from the task it is about
Shape(c) ==
    [op |-> c.op,
     sequence |-> c.args.sequence,
     status |-> CASE c.op = "status"   -> c.args.status
                  [] c.op = "complete" -> c.args.final_status
                  [] OTHER             -> ""]

(* C23: the lease is advisory.  Of two tasks that differ in lease_expires_at
   only, the k-th reporting call has the same operation, sequence and
   status whenever the earlier calls of both got the same answers, and one
   has a k-th call exactly when the other has; the runner is invoked for a
   task exactly when its heartbeat was acknowledged; and a task ends in the
   exception handler only after a reporting call of its own that was not
   acknowledged, whatever its lease. *)
LeaseAdvisory ==
    /\ \A i, j \in Positions :
          (Finished(i) /\ Finished(j)) =>
             LET ri == ReportsOf(i)
                 rj == ReportsOf(j)
             IN  \A k \in 1..Len(ri) :
                    (/\ k - 1 <= Len(rj)
                     /\ \A l \in 1..(k - 1) : ri[l].ok = rj[l].ok) =>
                       (k <= Len(rj) /\ Shape(ri[k]) = Shape(rj[k]))
    /\ \A i \in Positions :
          LET r == ReportsOf(i)
          IN  /\ Finished(i) => (Len(RunsOf(i)) = IF r[1].ok THEN 1 ELSE 0)
              /\ Handled(i) =>
                    \E k \in 1..Len(r) : ~r[k].ok /\ r[k].args.sequence # RecoverySequence
              /\ (Finished(i) /\ \A k \in 1..Len(r) : r[k].ok) => Completed(i)

\* a task whose lease had expired when it was claimed and a task with no lease
\* both ran and completed on the same four calls
LeaseAdvisoryWitness ==
    /\ pc = "returned"
    /\ \E i, j \in Positions :
          /\ tasks[i].lease_expires_at = PyStr(LeaseExpired)
          /\ tasks[j].lease_expires_at = PyNone
          /\ Completed(i) /\ Completed(j)
          /\ Len(RunsOf(i)) = 1
          /\ OpsOf(i) = <<"heartbeat", "logs", "status", "complete">>
          /\ OpsOf(j) = OpsOf(i)

\* the lookup of the task at i was made and found a runner / found none
LookupDone(i) == Finished(i) /\ ReportsOf(i)[1].ok
LookupFound(i) == Len(RunsOf(i)) = 1
LookupMissed(i) ==
    LET r == ReportsOf(i)
    IN  /\ Len(RunsOf(i)) = 0
        /\ Len(r) = 2
        /\ IsRecovery(r[2])
        /\ r[2].args.failure.v.message = "No runner registered for adapter"

(* C22, as claimed: an id whose lower-cased form is not registered always
   fails with the lookup error. *)
LookupFailsUnlessLowerRegistered ==
    \A i \in Positions :
        (LookupDone(i) /\ Lower(tasks[i].adapter_id) # IntegraAssist) => LookupMissed(i)

(* C22, amended: the lookup depends on the id's stripped, lower-cased form
   only.  Ids that differ in letter case only get the same outcome, and so
   does the same id looked up twice; the runner is found when that form is
   "integra_assist", and the lookup error is raised for every other id; the
   lookup step changes nothing but the worker's position and pending error. *)
LookupCaseInsensitive ==
    /\ [](\A i \in Positions :
            LookupDone(i) =>
               /\ IF Lower(Strip(tasks[i].adapter_id)) = IntegraAssist
                  THEN LookupFound(i)
                  ELSE LookupMissed(i)
               /\ \A j \in 1..(i - 1) :
                     Lower(tasks[j].adapter_id) = Lower(tasks[i].adapter_id) =>
                        (LookupDone(j) => (LookupFound(i) <=> LookupFound(j))))
    /\ [][pc = "get" =>
            /\ UNCHANGED <<cfg, env, tasks, idx, seq, result, processed, returned,
                           slept, calls>>
            /\ \/ pc' = "run" /\ exc' = ""
               \/ pc' = "except" /\ exc' = "No runner registered for adapter"]_vars

\* two ids that differ in letter case only both reached the runner
LookupCaseInsensitiveWitness ==
    /\ pc = "returned"
    /\ Len(tasks) = 2
    /\ LookupDone(1) /\ LookupDone(2)
    /\ tasks[1].adapter_id # tasks[2].adapter_id
    /\ Lower(tasks[1].adapter_id) = Lower(tasks[2].adapter_id)
    /\ LookupFound(1) /\ LookupFound(2)

\* the conditions of the runner's choice, read off the environment and the task
BackendIsPylabrobot ==
    /\ "INTEGRA_ASSIST_BACKEND" \in DOMAIN env
    /\ Lower(Strip(env["INTEGRA_ASSIST_BACKEND"])) = Pylabrobot
SimulateIsOne ==
    "INTEGRA_ASSIST_SIMULATE" \in DOMAIN env => env["INTEGRA_ASSIST_SIMULATE"] = "1"
SimMsIsInteger ==
    "INTEGRA_ASSIST_SIM_MS" \in DOMAIN env => env["INTEGRA_ASSIST_SIM_MS"] \in {"0", "300"}
ParametersSimulate(t) ==
    /\ IsDict(t.runtime_parameters)
    /\ "simulate" \in DOMAIN t.runtime_parameters.v
    /\ Truthy(t.runtime_parameters.v["simulate"])
ShouldSimulate(t) == ~BackendIsPylabrobot \/ SimulateIsOne \/ ParametersSimulate(t)

\* the runner invocation returned the simulated result
Simulated(c) ==
    /\ c.ok
    /\ c.bridge = <<>>
    /\ c.result.final_status = "completed"
    /\ Len(c.result.logs) = 1
    /\ c.result.logs[1].code = PyStr("SIMULATED_RUN")
    /\ c.result.failure = PyNone

\* the hook returned a mapping with final_status completed whose logs are a list
CompletedPayload(h) ==
    /\ ~h.raised
    /\ IsDict(h.value)
    /\ DictGet(h.value.v, "final_status", PyNone) = PyStr("completed")
    /\ IsList(DictGet(h.value.v, "logs", PyList(<<>>)))

(* C24, as claimed: the runner simulates the task whenever the backend is
   not "pylabrobot", or INTEGRA_ASSIST_SIMULATE is "1" or unset, or the
   task's runtime_parameters.simulate is truthy; the simulated result is
   completed, has a SIMULATED_RUN log entry and no failure. *)
SimulatesWhenever ==
    \A k \in 1..Len(calls) :
        (calls[k].op = "run" /\ ShouldSimulate(tasks[PosOf(calls[k])])) =>
            Simulated(calls[k])

(* C24, amended: under the same three conditions the runner simulates,
   provided INTEGRA_ASSIST_SIM_MS is an integer and, when
   INTEGRA_ASSIST_SIMULATE is not "1", runtime_parameters is a mapping;
   otherwise run raises and the bridge is not called.  The bridge is called
   exactly when the backend is "pylabrobot" and neither the flag nor the
   parameters force simulation, and a completed payload of the hook then
   gives final_status completed with the hook's logs and external status. *)
RunnerSimulatesOrBridges ==
    \A k \in 1..Len(calls) :
        calls[k].op = "run" =>
           LET c == calls[k]
               t == tasks[PosOf(c)]
               evaluates == SimulateIsOne \/ IsDict(t.runtime_parameters)
           IN  /\ (ShouldSimulate(t) /\ evaluates /\ SimMsIsInteger) => Simulated(c)
               /\ (~evaluates \/ (ShouldSimulate(t) /\ ~SimMsIsInteger)) =>
                     (~c.ok /\ c.bridge = <<>>)
               /\ c.bridge # <<>> <=>
                     (/\ BackendIsPylabrobot
                      /\ ~SimulateIsOne
                      /\ IsDict(t.runtime_parameters)
                      /\ ~ParametersSimulate(t))
               /\ (c.bridge # <<>> /\ CompletedPayload(c.bridge[1])) =>
                     /\ c.ok
                     /\ c.result.final_status = "completed"
                     /\ Len(c.result.logs) = 1
                     /\ c.result.logs[1].message = "pylabrobot hook executed"
                     /\ c.result.logs[1].code = PyStr("PYLABROBOT_HOOK")
                     /\ c.result.external = HookExternal

\* with the backend " PyLabRobot " and INTEGRA_ASSIST_SIMULATE "0", a task whose
\* runtime_parameters.simulate is true was simulated and completed
RunnerSimulatesOrBridgesWitness ==
    /\ pc = "returned"
    /\ BackendIsPylabrobot
    /\ ~SimulateIsOne
    /\ \E i \in Positions :
          /\ ParametersSimulate(tasks[i])
          /\ Completed(i)
          /\ Simulated(RunsOf(i)[1])

\* the bridge failed: the hook raised, returned no mapping, or _coerce_result
\* rejected its payload (invalid final_status, logs that cannot be iterated)
BridgeError(h) ==
    \/ h.raised
    \/ ~IsDict(h.value)
    \/ PyToStr(DictGet(h.value.v, "final_status", PyStr("failed")))
          \notin {"completed", "failed", "canceled"}
    \/ DictGet(h.value.v, "logs", PyList(<<>>)) = PyNone

BridgeErrorReports ==
    <<[op |-> "heartbeat", sequence |-> 1, status |-> ""],
      [op |-> "logs", sequence |-> 2, status |-> ""],
      [op |-> "status", sequence |-> 3, status |-> "failed"],
      [op |-> "complete", sequence |-> 4, status |-> "failed"]>>

(* C28: when the bridge is called, run never raises.  A bridge error gives
   a returned result with final_status failed, one error log entry with
   code PYLABROBOT_EXECUTION_FAILED and a failure with that code; the task's
   normal calls are heartbeat(1), append_logs(2), update_status "failed"(3)
   carrying that failure, complete "failed"(4), all four when each is
   acknowledged, and the 999999 recovery update appears only after one of
   these calls was not acknowledged and carries that call's error, never
   the bridge's. *)
BridgeErrorsReturned ==
    \A i \in Positions :
        LET runs == RunsOf(i)
            r == ReportsOf(i)
        IN  (Len(runs) > 0 /\ runs[1].bridge # <<>>) =>
              /\ runs[1].ok
              /\ BridgeError(runs[1].bridge[1]) =>
                    LET res == runs[1].result
                    IN  /\ res.final_status = "failed"
                        /\ Len(res.logs) = 1
                        /\ res.logs[1].level = "error"
                        /\ res.logs[1].code = PyStr("PYLABROBOT_EXECUTION_FAILED")
                        /\ IsDict(res.failure)
                        /\ res.failure.v.code = "PYLABROBOT_EXECUTION_FAILED"
                        /\ \A k \in 1..Len(r) :
                              IF r[k].args.sequence # RecoverySequence
                              THEN /\ k <= 4
                                   /\ Shape(r[k]) = BridgeErrorReports[k]
                                   /\ k = 3 => r[k].args.failure = res.failure
                              ELSE /\ k > 1
                                   /\ ~r[k - 1].ok
                                   /\ r[k].args.failure.v.message # res.failure.v.message
                        /\ (Finished(i) /\ \A k \in 1..Len(r) : r[k].ok) =>
                              (Len(r) = 4 /\ Completed(i))
                        /\ (idx = i /\ pc = "except") => ~r[Len(r)].ok

\* the hook raised, and the task was reported on the four normal calls and
\* completed as failed
BridgeErrorsReturnedWitness ==
    /\ pc = "returned"
    /\ \E i \in Positions :
          /\ Completed(i)
          /\ RunsOf(i)[1].bridge = <<HookRaises>>
          /\ OpsOf(i) = <<"heartbeat", "logs", "status", "complete">>
          /\ ReportsOf(i)[4].args.final_status = "failed"

====
